---- MODULE Spec2Model ----
(***************************************************************************)
(* Model of ocp_resources/user_defined_network.py:                         *)
(*   - the condition classifier (is_ready_condition,                       *)
(*     is_sync_error_condition),                                           *)
(*   - the status wait engine (wait_for_status_condition),                 *)
(*   - the document builder (to_dict of UserDefinedNetwork and of its      *)
(*     Layer2 / Layer3 / LocalNet subclasses).                             *)
(* Python values are encoded as follows: a dict is a function whose        *)
(* domain is its set of keys, a list is a sequence, and an Optional value  *)
(* is a sequence of length 0 (None) or 1 (the value).                      *)
(***************************************************************************)
EXTENDS Integers, Sequences, FiniteSets, TLC

VARIABLES
    condition,      \* classifier: the dict handed to the predicates
    ready_result,   \* classifier: outcome of is_ready_condition(condition)
    sync_result,    \* classifier: outcome of is_sync_error_condition(condition)
    name,                    \* engine: self.name
    wait_condition_fns,      \* engine: argument, a list of predicates
    not_wait_condition_fns,  \* engine: argument, None or a list of predicates
    wait_timeout,            \* engine: argument
    sleep_interval,          \* engine: argument
    pc,             \* engine: "not called", "polling" or "done"
    elapsed,        \* engine: time since the sampler started
    calls,          \* engine: invocations of the conditions accessor so far
    sample,         \* engine: the most recent snapshot
    result,         \* engine: how the call ended
    udn,            \* builder: the attributes of the resource instance
    given,          \* builder: the attributes as the constructor received them
    res,            \* builder: self.res, None before the first to_dict
    prev_res,       \* builder: self.res as the previous to_dict left it
    renders         \* builder: calls of to_dict so far

classifierVars == <<condition, ready_result, sync_result>>

engineArgs == <<name, wait_condition_fns, not_wait_condition_fns, wait_timeout, sleep_interval>>

engineVars == <<engineArgs, pc, elapsed, calls, sample, result>>

builderVars == <<udn, given, res, prev_res, renders>>

vars == <<classifierVars, engineVars, builderVars>>

---------------------------------------------------------------------------
(* Python values *)

None == <<>>

Some(v) == <<v>>

\* dict display {}
EmptyDict == [k \in {} |-> None]

\* d[key] = value on a dict
SetItem(d, key, value) == (key :> value) @@ d

---------------------------------------------------------------------------
(* Vocabulary of the resource *)

NETWORK_READY == "NetworkReady"

NETWORK_ATTACHMENT_DEFINITION_READY == "NetworkAttachmentDefinitionReady"

SYNC_ERROR == "SyncError"

\* Resource.Condition.Status of the base class
ConditionStatusTRUE == "True"

ConditionStatusFALSE == "False"

---------------------------------------------------------------------------
(* Condition records the classifier is applied to: a dict carrying any     *)
(* subset of the fields type, status, reason, message.                     *)

Fields == {"type", "status", "reason", "message"}

TypeValues == {NETWORK_READY, "Other"}

StatusValues == {ConditionStatusTRUE, ConditionStatusFALSE, "Unknown"}

ReasonValues == {NETWORK_ATTACHMENT_DEFINITION_READY, SYNC_ERROR, "OtherReason"}

MessageValues == {"ok", "bad subnet"}

FieldValues(k) ==
    CASE k = "type" -> TypeValues
      [] k = "status" -> StatusValues
      [] k = "reason" -> ReasonValues
      [] OTHER -> MessageValues

ConditionDicts ==
    UNION { { c \in [S -> TypeValues \cup StatusValues \cup ReasonValues \cup MessageValues] :
                \A k \in S : c[k] \in FieldValues(k) } : S \in SUBSET Fields }

---------------------------------------------------------------------------
(* Outcome of a call: a returned bool, or a raised exception *)

Return(b) == [exc |-> "none", ret |-> b]

Raise(e) == [exc |-> e, ret |-> FALSE]

NotCalled == [exc |-> "not called", ret |-> FALSE]

\* Mutant: the type comparison is dropped.
is_ready_condition_no_type(c) ==
    IF "reason" \notin DOMAIN c THEN Raise("KeyError")
    ELSE IF c["reason"] # NETWORK_ATTACHMENT_DEFINITION_READY THEN Return(FALSE)
    ELSE IF "status" \notin DOMAIN c THEN Raise("KeyError")
    ELSE Return(c["status"] = ConditionStatusTRUE)

\* condition["reason"] == ... and condition["status"] == ... and condition["type"] == ...
\* evaluated left to right with short circuit; subscripting a dict with a
\* missing key raises KeyError.
is_ready_condition(c) ==
    IF "reason" \notin DOMAIN c THEN Raise("KeyError")
    ELSE IF c["reason"] # NETWORK_ATTACHMENT_DEFINITION_READY THEN Return(FALSE)
    ELSE IF "status" \notin DOMAIN c THEN Raise("KeyError")
    ELSE IF c["status"] # ConditionStatusTRUE THEN Return(FALSE)
    ELSE IF "type" \notin DOMAIN c THEN Raise("KeyError")
    ELSE Return(c["type"] = NETWORK_READY)

is_sync_error_condition(c) ==
    IF "reason" \notin DOMAIN c THEN Raise("KeyError")
    ELSE IF c["reason"] # SYNC_ERROR THEN Return(FALSE)
    ELSE IF "status" \notin DOMAIN c THEN Raise("KeyError")
    ELSE IF c["status"] # ConditionStatusFALSE THEN Return(FALSE)
    ELSE IF "type" \notin DOMAIN c THEN Raise("KeyError")
    ELSE Return(c["type"] = NETWORK_READY)

---------------------------------------------------------------------------
(* Status wait engine: wait_for_status_condition *)

MaxSnapshotLen == 2

MaxWaitTimeout == 2

MaxSleepInterval == 2

MaxCallTime == 1

Names == {"udn-a", "udn-b"}

\* The predicates a caller can pass, by name.
PredicateFns == {"is_ready_condition", "is_sync_error_condition"}

Apply(fn, c) ==
    IF fn = "is_ready_condition" THEN is_ready_condition(c) ELSE is_sync_error_condition(c)

WaitFnLists ==
    { <<>>, <<"is_ready_condition">>, <<"is_sync_error_condition">>,
      <<"is_ready_condition", "is_sync_error_condition">> }

NotWaitFnArgs ==
    { None, Some(<<>>), Some(<<"is_sync_error_condition">>), Some(<<"is_ready_condition">>) }

\* What the conditions accessor returns: records with all four fields, as the
\* API serves them. Two ready conditions and two sync-error conditions (told
\* apart by their messages) and one that is neither.
SnapshotConditions ==
    { c \in ConditionDicts :
        /\ DOMAIN c = Fields
        /\ c["type"] = NETWORK_READY
        /\ \/ c["status"] = ConditionStatusTRUE /\ c["reason"] = NETWORK_ATTACHMENT_DEFINITION_READY
           \/ c["status"] = ConditionStatusFALSE /\ c["reason"] = SYNC_ERROR
           \/ c["status"] = "Unknown" /\ c["reason"] = "OtherReason" /\ c["message"] = "ok" }

Snapshots == UNION { [1..n -> SnapshotConditions] : n \in 0..MaxSnapshotLen }

\* How a call ends.
Returns(v) == [kind |-> "return", exc |-> "none", text |-> <<>>, value |-> Some(v)]

Raises(e, t) == [kind |-> "raise", exc |-> e, text |-> t, value |-> None]

Continue == [kind |-> "continue", exc |-> "none", text |-> <<>>, value |-> None]

NoResult == [kind |-> "none", exc |-> "none", text |-> <<>>, value |-> None]

\* any(fn(condition) for fn in fns): left to right, stops at the first True,
\* an exception of a predicate propagates.
RECURSIVE AnyFn(_, _)
AnyFn(fns, c) ==
    IF fns = <<>> THEN Return(FALSE)
    ELSE LET r == Apply(Head(fns), c)
         IN  IF r.exc # "none" THEN r
             ELSE IF r.ret THEN Return(TRUE)
             ELSE AnyFn(Tail(fns), c)

\* for condition in sample: if any(...): <stop at condition>
\* [exc, found, cond]: the first condition of the snapshot, in order, that
\* satisfies one of fns.
RECURSIVE Scan(_, _)
Scan(s, fns) ==
    IF s = <<>> THEN [exc |-> "none", found |-> FALSE, cond |-> None]
    ELSE LET r == AnyFn(fns, Head(s))
         IN  IF r.exc # "none" THEN [exc |-> r.exc, found |-> FALSE, cond |-> None]
             ELSE IF r.ret THEN [exc |-> "none", found |-> TRUE, cond |-> Some(Head(s))]
             ELSE Scan(Tail(s), fns)

\* f"Failed to wait for the intended status for UDN {self.name}. "
\* f"Condition message: {condition['message']}"
FailureText(n, c) ==
    <<"Failed to wait for the intended status for UDN ", n, ". Condition message: ", c["message"]>>

\* Mutant: an empty or absent failure list falls back to the sync-error predicate.
FailureFnsDefaulted(arg) ==
    IF arg # None /\ arg[1] # <<>> THEN arg[1] ELSE <<"is_sync_error_condition">>

\* if not_wait_condition_fns: ... the predicates the failure scan runs over;
\* None and the empty list are falsy.
FailureFns(arg) ==
    IF arg # None /\ arg[1] # <<>> THEN arg[1] ELSE <<>>

\* Mutant: the failure scan runs before the success scan.
ClassifyFailureFirst(s, n, waitFns, notWaitArg) ==
    LET bad == Scan(s, FailureFns(notWaitArg))
        ok  == Scan(s, waitFns)
    IN  IF bad.exc # "none" THEN Raises(bad.exc, <<>>)
        ELSE IF bad.found THEN Raises("WaitForStatusConditionFailed", FailureText(n, bad.cond[1]))
        ELSE IF ok.exc # "none" THEN Raises(ok.exc, <<>>)
        ELSE IF ok.found THEN Returns(ok.cond[1])
        ELSE Continue

\* Mutant: the success scan returns the last match of the snapshot.
ClassifyLastMatch(s, n, waitFns, notWaitArg) ==
    LET ok  == Scan(s, waitFns)
        rev == Scan([i \in 1..Len(s) |-> s[Len(s) + 1 - i]], waitFns)
        bad == Scan(s, FailureFns(notWaitArg))
    IN  IF ok.exc # "none" THEN Raises(ok.exc, <<>>)
        ELSE IF ok.found THEN Returns(rev.cond[1])
        ELSE IF bad.exc # "none" THEN Raises(bad.exc, <<>>)
        ELSE IF bad.found THEN Raises("WaitForStatusConditionFailed", FailureText(n, bad.cond[1]))
        ELSE Continue

\* Mutant: the failure text carries the message of the snapshot's first condition.
ClassifyWrongMessage(s, n, waitFns, notWaitArg) ==
    LET ok  == Scan(s, waitFns)
        bad == Scan(s, FailureFns(notWaitArg))
    IN  IF ok.exc # "none" THEN Raises(ok.exc, <<>>)
        ELSE IF ok.found THEN Returns(ok.cond[1])
        ELSE IF bad.exc # "none" THEN Raises(bad.exc, <<>>)
        ELSE IF bad.found THEN Raises("WaitForStatusConditionFailed", FailureText(n, s[1]))
        ELSE Continue

\* The body of `for sample in samples:` for one snapshot: the success scan
\* over the whole snapshot, then (failure predicates given) the failure scan.
Classify(s, n, waitFns, notWaitArg) ==
    LET ok  == Scan(s, waitFns)
        bad == Scan(s, FailureFns(notWaitArg))
    IN  IF ok.exc # "none" THEN Raises(ok.exc, <<>>)
        ELSE IF ok.found THEN Returns(ok.cond[1])
        ELSE IF bad.exc # "none" THEN Raises(bad.exc, <<>>)
        ELSE IF bad.found THEN Raises("WaitForStatusConditionFailed", FailureText(n, bad.cond[1]))
        ELSE Continue

\* Mutant: the handler logs and does not re-raise, so control reaches `return {}`.
ExceptHandlerSwallow(r) ==
    IF r.kind = "raise" /\ r.exc \in {"TimeoutExpiredError", "WaitForStatusConditionFailed"}
    THEN Returns(EmptyDict)
    ELSE r

\* except (TimeoutExpiredError, WaitForStatusConditionFailed) as e: log; raise
ExceptHandler(r) == r

\* TimeoutSampler: a sample is taken while time remains.
TimeRemains(t, timeout) == t < timeout

---------------------------------------------------------------------------
(* Document builder: to_dict of UserDefinedNetwork and its subclasses.     *)
(* res["spec"][key] = value stores the caller's dict itself, not a copy:   *)
(* the model keeps the content of each raw sub-document in udn and writes  *)
(* back what to_dict writes through the rendered document.                 *)

MaxSubnets == 1

MaxRenders == 2

LAYER2 == "Layer2"

LAYER3 == "Layer3"

LOCALNET == "LocalNet"

Kinds ==
    { "UserDefinedNetwork", "Layer2UserDefinedNetwork",
      "Layer3UserDefinedNetwork", "LocalNetUserDefinedNetwork" }

\* Values of the constructor arguments.
Roles == {None, Some("Primary")}

Mtus == {None, Some(1400)}

JoinSubnets == {None, Some("100.65.0.0/16")}

IpamLifecycles == {None, Some("Persistent")}

SeqsUpTo(S, n) == UNION { [1..k -> S] : k \in 0..n }

CidrLists == {None} \cup { Some(l) : l \in SeqsUpTo({"10.0.0.0/16"}, MaxSubnets) }

ExcludeLists == {None, Some(<<"10.0.1.0/24">>)}

\* Layer3Subnets(cidr, host_subnet)
Layer3Subnets(cidr, host_subnet) == [cidr |-> cidr, host_subnet |-> host_subnet]

Layer3SubnetObjects ==
    { Layer3Subnets(c, h) : c \in {None, Some("10.0.0.0/16")}, h \in {None, Some(24)} }

Layer3SubnetLists == {None} \cup { Some(l) : l \in SeqsUpTo(Layer3SubnetObjects, MaxSubnets) }

\* Raw, already shaped sub-documents a caller may pass.
RawLayer2Docs ==
    { None, Some(EmptyDict), Some([mtu |-> 9000, subnets |-> <<"192.168.0.0/16">>]) }

RawLayer3Docs ==
    { None, Some(EmptyDict), Some([mtu |-> 9000, subnets |-> <<[cidr |-> "192.168.0.0/16"]>>]) }

RawLocalNetDocs ==
    { None, Some(EmptyDict), Some([mtu |-> 9000, subnets |-> <<"192.168.0.0/16">>]) }

YamlFiles == {None, Some("udn.yaml")}

\* UserDefinedNetwork.__init__; the attributes of the subclasses start unset.
UserDefinedNetworkInit(kind, topology, layer2, layer3, local_net, yaml_file) ==
    [ kind |-> kind, name |-> "udn-a", namespace |-> "ns1", yaml_file |-> yaml_file,
      topology |-> topology, layer2 |-> layer2, layer3 |-> layer3, local_net |-> local_net,
      role |-> None, mtu |-> None, subnets |-> None, join_subnets |-> None,
      ipam_lifecycle |-> None, exclude_subnets |-> None ]

\* Layer2UserDefinedNetwork.__init__: topology is fixed, the raw sub-documents
\* travel in **kwargs.
Layer2Init(role, mtu, subnets, join_subnets, ipam_lifecycle, layer2, layer3, local_net, yaml_file) ==
    [ UserDefinedNetworkInit("Layer2UserDefinedNetwork", Some(LAYER2), layer2, layer3, local_net, yaml_file)
        EXCEPT !.role = role, !.mtu = mtu, !.subnets = subnets,
               !.join_subnets = join_subnets, !.ipam_lifecycle = ipam_lifecycle ]

Layer3Init(role, mtu, subnets, join_subnets, layer2, layer3, local_net, yaml_file) ==
    [ UserDefinedNetworkInit("Layer3UserDefinedNetwork", Some(LAYER3), layer2, layer3, local_net, yaml_file)
        EXCEPT !.role = role, !.mtu = mtu, !.subnets = subnets, !.join_subnets = join_subnets ]

LocalNetInit(role, mtu, subnets, exclude_subnets, ipam_lifecycle, layer2, layer3, local_net, yaml_file) ==
    [ UserDefinedNetworkInit("LocalNetUserDefinedNetwork", Some(LOCALNET), layer2, layer3, local_net, yaml_file)
        EXCEPT !.role = role, !.mtu = mtu, !.subnets = subnets,
               !.exclude_subnets = exclude_subnets, !.ipam_lifecycle = ipam_lifecycle ]

Instances ==
    UNION { UNION { UNION { UNION {
      { UserDefinedNetworkInit("UserDefinedNetwork", t, l2, l3, ln, y) :
          t \in {None, Some(LAYER2), Some(LAYER3), Some(LOCALNET)} }
      \cup
      { Layer2Init(r, m, s, j, i, l2, l3, ln, y) :
          r \in Roles, m \in Mtus, s \in CidrLists, j \in JoinSubnets, i \in IpamLifecycles }
      \cup
      { Layer3Init(r, m, s, j, l2, l3, ln, y) :
          r \in Roles, m \in Mtus, s \in Layer3SubnetLists, j \in JoinSubnets }
      \cup
      { LocalNetInit(r, m, s, e, i, l2, l3, ln, y) :
          r \in Roles, m \in Mtus, s \in CidrLists, e \in ExcludeLists, i \in IpamLifecycles }
      : l2 \in RawLayer2Docs } : l3 \in RawLayer3Docs } : ln \in RawLocalNetDocs } : y \in YamlFiles }

\* The document of a manifest.
ManifestDoc ==
    [ metadata |-> [name |-> "udn-a", namespace |-> "ns1"],
      spec |-> [topology |-> LAYER2, layer2 |-> [role |-> "Secondary"]] ]

\* NamespacedResource.to_dict: self.res is built anew, from the manifest when
\* there is one.
BaseToDict(u) ==
    IF u.yaml_file # None
    THEN ManifestDoc
    ELSE [metadata |-> [name |-> u.name, namespace |-> u.namespace]]

\* d.setdefault(key, default)
SetDefault(d, key, default) == IF key \in DOMAIN d THEN d ELSE SetItem(d, key, default)

\* if value is not None: d[key] = value
SetIfNotNone(d, key, value) == IF value # None THEN SetItem(d, key, value[1]) ELSE d

\* UserDefinedNetwork.to_dict. Returns the instance and self.res.
UserDefinedNetworkToDict(u) ==
    LET base == BaseToDict(u)
        s1 == SetIfNotNone(EmptyDict, "topology", u.topology)
        s2 == SetIfNotNone(s1, "layer2", u.layer2)
        s3 == SetIfNotNone(s2, "layer3", u.layer3)
        s4 == SetIfNotNone(s3, "localNet", u.local_net)
    IN  IF u.yaml_file # None
        THEN [udn |-> u, res |-> base]
        ELSE [udn |-> u, res |-> SetItem(base, "spec", s4)]

\* self.res.setdefault("spec", {}).setdefault(key, {}): the sub-document the
\* subclass writes into.
Variant(doc, key) == SetDefault(SetDefault(doc, "spec", EmptyDict)["spec"], key, EmptyDict)[key]

\* The document with the sub-document under spec[key] replaced.
WithVariant(doc, key, v) ==
    SetItem(doc, "spec", SetItem(SetDefault(doc, "spec", EmptyDict)["spec"], key, v))

\* Mutant: the LocalNet sub-document is written under a key in lower case.
VariantKeyLowerCase(kind) ==
    CASE kind = "Layer2UserDefinedNetwork" -> "layer2"
      [] kind = "Layer3UserDefinedNetwork" -> "layer3"
      [] OTHER -> "localnet"

\* The key each subclass passes to setdefault.
VariantKey(kind) ==
    CASE kind = "Layer2UserDefinedNetwork" -> "layer2"
      [] kind = "Layer3UserDefinedNetwork" -> "layer3"
      [] OTHER -> "localNet"

\* Layer2UserDefinedNetwork.to_dict
Layer2ToDict(u) ==
    LET r  == UserDefinedNetworkToDict(u)
        k  == VariantKey(u.kind)
        v0 == Variant(r.res, k)
        v1 == SetIfNotNone(v0, "role", u.role)
        v2 == SetIfNotNone(v1, "mtu", u.mtu)
        v3 == SetIfNotNone(v2, "subnets", u.subnets)
        v4 == SetIfNotNone(v3, "joinSubnets", u.join_subnets)
        v5 == SetIfNotNone(v4, "ipamLifecycle", u.ipam_lifecycle)
    IN  IF u.yaml_file # None
        THEN r
        ELSE [ udn |-> IF u.layer2 # None /\ k = "layer2" THEN [u EXCEPT !.layer2 = Some(v5)] ELSE u,
               res |-> WithVariant(r.res, k, v5) ]

\* Mutant: an unset cidr or host_subnet is rendered with a placeholder.
SubnetDictPlaceholders(subnet) ==
    [ k \in {"cidr", "hostSubnet"} |->
        IF k = "cidr"
        THEN (IF subnet.cidr # None THEN subnet.cidr[1] ELSE "")
        ELSE (IF subnet.host_subnet # None THEN subnet.host_subnet[1] ELSE 0) ]

\* {key: value for key, value in [("cidr", ...), ("hostSubnet", ...)] if value is not None}
SubnetDict(subnet) ==
    [ k \in { x \in {"cidr", "hostSubnet"} :
                IF x = "cidr" THEN subnet.cidr # None ELSE subnet.host_subnet # None } |->
        IF k = "cidr" THEN subnet.cidr[1] ELSE subnet.host_subnet[1] ]

\* for subnet in self.subnets: ...["subnets"].append(subnet_dict)
RECURSIVE AppendSubnets(_, _)
AppendSubnets(list, subnets) ==
    IF subnets = <<>> THEN list
    ELSE AppendSubnets(Append(list, SubnetDict(Head(subnets))), Tail(subnets))

\* Layer3UserDefinedNetwork.to_dict
Layer3ToDict(u) ==
    LET r  == UserDefinedNetworkToDict(u)
        k  == VariantKey(u.kind)
        v0 == Variant(r.res, k)
        v1 == SetIfNotNone(v0, "role", u.role)
        v2 == SetIfNotNone(v1, "mtu", u.mtu)
        v3 == SetIfNotNone(v2, "joinSubnets", u.join_subnets)
        v4 == IF u.subnets # None
              THEN LET d == SetDefault(v3, "subnets", <<>>)
                   IN  SetItem(d, "subnets", AppendSubnets(d["subnets"], u.subnets[1]))
              ELSE v3
    IN  IF u.yaml_file # None
        THEN r
        ELSE [ udn |-> IF u.layer3 # None /\ k = "layer3" THEN [u EXCEPT !.layer3 = Some(v4)] ELSE u,
               res |-> WithVariant(r.res, k, v4) ]

\* LocalNetUserDefinedNetwork.to_dict
LocalNetToDict(u) ==
    LET r  == UserDefinedNetworkToDict(u)
        k  == VariantKey(u.kind)
        v0 == Variant(r.res, k)
        v1 == SetIfNotNone(v0, "role", u.role)
        v2 == SetIfNotNone(v1, "mtu", u.mtu)
        v3 == SetIfNotNone(v2, "subnets", u.subnets)
        v4 == SetIfNotNone(v3, "excludeSubnets", u.exclude_subnets)
        v5 == SetIfNotNone(v4, "ipamLifecycle", u.ipam_lifecycle)
    IN  IF u.yaml_file # None
        THEN r
        ELSE [ udn |-> IF u.local_net # None /\ k = "localNet" THEN [u EXCEPT !.local_net = Some(v5)] ELSE u,
               res |-> WithVariant(r.res, k, v5) ]

---------------------------------------------------------------------------
(* Each specification below runs one of the three parts and leaves the     *)
(* variables of the other two at rest.                                     *)

ClassifierIdle ==
    /\ condition = EmptyDict
    /\ ready_result = NotCalled
    /\ sync_result = NotCalled

EngineIdle ==
    /\ name = "udn-a"
    /\ wait_condition_fns = <<>>
    /\ not_wait_condition_fns = None
    /\ wait_timeout = 0
    /\ sleep_interval = 1
    /\ pc = "idle"
    /\ elapsed = 0
    /\ calls = 0
    /\ sample = <<>>
    /\ result = NoResult

BuilderIdle ==
    /\ udn = UserDefinedNetworkInit("UserDefinedNetwork", None, None, None, None, None)
    /\ given = udn
    /\ res = None
    /\ prev_res = None
    /\ renders = 0

---------------------------------------------------------------------------
(* Engine specification *)

EngineInit ==
    /\ name \in Names
    /\ wait_condition_fns \in WaitFnLists
    /\ not_wait_condition_fns \in NotWaitFnArgs
    /\ wait_timeout \in 0..MaxWaitTimeout
    /\ sleep_interval \in 1..MaxSleepInterval
    /\ pc = "not called"
    /\ elapsed = 0
    /\ calls = 0
    /\ sample = <<>>
    /\ result = NoResult
    /\ ClassifierIdle
    /\ BuilderIdle

\* samples = TimeoutSampler(wait_timeout=..., sleep=..., func=lambda: self.conditions)
StartWait ==
    /\ pc = "not called"
    /\ pc' = "polling"
    /\ UNCHANGED <<engineArgs, elapsed, calls, sample, result, classifierVars, builderVars>>

\* One turn of the sampling loop: the accessor is called (taking d), the
\* snapshot is classified, and the sampler sleeps when nothing matched.
PollSample ==
    /\ pc = "polling"
    /\ TimeRemains(elapsed, wait_timeout)
    /\ \E s \in Snapshots, d \in 0..MaxCallTime :
         LET r == ExceptHandler(Classify(s, name, wait_condition_fns, not_wait_condition_fns))
         IN  /\ calls' = calls + 1
             /\ sample' = s
             /\ IF r.kind = "continue"
                THEN /\ elapsed' = elapsed + d + sleep_interval
                     /\ UNCHANGED <<pc, result>>
                ELSE /\ elapsed' = elapsed + d
                     /\ pc' = "done"
                     /\ result' = r
    /\ UNCHANGED <<engineArgs, classifierVars, builderVars>>

\* The sampler finds no time left and raises TimeoutExpiredError.
TimeoutExpired ==
    /\ pc = "polling"
    /\ ~TimeRemains(elapsed, wait_timeout)
    /\ pc' = "done"
    /\ result' = ExceptHandler(Raises("TimeoutExpiredError", <<>>))
    /\ UNCHANGED <<engineArgs, elapsed, calls, sample, classifierVars, builderVars>>

EngineNext == StartWait \/ PollSample \/ TimeoutExpired

SpecEngine == EngineInit /\ [][EngineNext]_vars

\* The terminal states of the engine.
SUCCEEDED == pc = "done" /\ result.kind = "return" /\ result.value # Some(EmptyDict)

FAILED == pc = "done" /\ result.kind = "raise" /\ result.exc = "WaitForStatusConditionFailed"

TIMED_OUT == pc = "done" /\ result.kind = "raise" /\ result.exc = "TimeoutExpiredError"

---------------------------------------------------------------------------
(* Builder specification *)

BuilderInit ==
    /\ udn \in Instances
    /\ given = udn
    /\ res = None
    /\ prev_res = None
    /\ renders = 0
    /\ ClassifierIdle
    /\ EngineIdle

Rendered(r) ==
    /\ udn' = r.udn
    /\ prev_res' = res
    /\ res' = Some(r.res)
    /\ renders' = renders + 1
    /\ UNCHANGED <<given, classifierVars, engineVars>>

ToDictBase ==
    /\ udn.kind = "UserDefinedNetwork"
    /\ renders < MaxRenders
    /\ Rendered(UserDefinedNetworkToDict(udn))

ToDictLayer2 ==
    /\ udn.kind = "Layer2UserDefinedNetwork"
    /\ renders < MaxRenders
    /\ Rendered(Layer2ToDict(udn))

ToDictLayer3 ==
    /\ udn.kind = "Layer3UserDefinedNetwork"
    /\ renders < MaxRenders
    /\ Rendered(Layer3ToDict(udn))

ToDictLocalNet ==
    /\ udn.kind = "LocalNetUserDefinedNetwork"
    /\ renders < MaxRenders
    /\ Rendered(LocalNetToDict(udn))

BuilderNext == ToDictBase \/ ToDictLayer2 \/ ToDictLayer3 \/ ToDictLocalNet

SpecBuilder == BuilderInit /\ [][BuilderNext]_vars

---------------------------------------------------------------------------
(* Classifier specification: a condition dict is chosen, then each         *)
(* predicate is applied to it.                                             *)

ClassifierInit ==
    /\ condition \in ConditionDicts
    /\ ready_result = NotCalled
    /\ sync_result = NotCalled
    /\ EngineIdle
    /\ BuilderIdle

CallIsReady ==
    /\ ready_result = NotCalled
    /\ ready_result' = is_ready_condition(condition)
    /\ UNCHANGED <<condition, sync_result, engineVars, builderVars>>

CallIsSyncError ==
    /\ sync_result = NotCalled
    /\ sync_result' = is_sync_error_condition(condition)
    /\ UNCHANGED <<condition, ready_result, engineVars, builderVars>>

ClassifierNext == CallIsReady \/ CallIsSyncError

SpecClassifier == ClassifierInit /\ [][ClassifierNext]_vars

---------------------------------------------------------------------------
(* Vocabulary of the claims: the predicates as the specification states    *)
(* them, over records that carry type, status and reason.                  *)

IsReadyTriple(c) ==
    /\ c["type"] = "NetworkReady"
    /\ c["status"] = "True"
    /\ c["reason"] = "NetworkAttachmentDefinitionReady"

IsSyncErrorTriple(c) ==
    /\ c["type"] = "NetworkReady"
    /\ c["status"] = "False"
    /\ c["reason"] = "SyncError"

Satisfies(c, fns) ==
    \E i \in 1..Len(fns) :
        IF fns[i] = "is_ready_condition" THEN IsReadyTriple(c) ELSE IsSyncErrorTriple(c)

HasSatisfying(s, fns) == \E i \in 1..Len(s) : Satisfies(s[i], fns)

FirstSatisfying(s, fns) ==
    s[CHOOSE i \in 1..Len(s) :
        /\ Satisfies(s[i], fns)
        /\ \A j \in 1..(i - 1) : ~Satisfies(s[j], fns)]

FailureSetGiven == not_wait_condition_fns # None /\ not_wait_condition_fns[1] # <<>>

---------------------------------------------------------------------------
(* Claims about the status wait engine (SpecEngine) *)

\* C1: a polled snapshot that holds both a condition satisfying a success
\* predicate and a condition satisfying a failure predicate, in any order,
\* ends the wait with the success-matching condition returned, never with
\* WaitForStatusConditionFailed.
C1_SuccessWinsTie ==
    ( /\ calls >= 1
      /\ HasSatisfying(sample, wait_condition_fns)
      /\ FailureSetGiven
      /\ HasSatisfying(sample, not_wait_condition_fns[1]) )
    => ( /\ SUCCEEDED
         /\ ~FAILED
         /\ result.value = Some(FirstSatisfying(sample, wait_condition_fns)) )

\* The failure-matching condition comes first in the snapshot, a different
\* success-matching condition after it, and the wait has returned.
C1_Witness ==
    /\ SUCCEEDED
    /\ FailureSetGiven
    /\ Len(sample) = 2
    /\ Satisfies(sample[1], not_wait_condition_fns[1])
    /\ ~Satisfies(sample[1], wait_condition_fns)
    /\ Satisfies(sample[2], wait_condition_fns)

\* C2: when the first polled snapshot holds a condition satisfying a success
\* predicate, the wait returns the first such condition in snapshot order,
\* and the accessor, invoked once, is never invoked again.
C2_FirstSnapshotSuccess ==
    [][ /\ ( calls' = 1 /\ HasSatisfying(sample', wait_condition_fns') )
           => ( /\ SUCCEEDED'
                /\ result' = Returns(FirstSatisfying(sample', wait_condition_fns')) )
        /\ ( calls = 1 /\ HasSatisfying(sample, wait_condition_fns) )
           => calls' = 1 ]_vars

\* The first snapshot holds two different success-matching conditions.
C2_Witness ==
    /\ SUCCEEDED
    /\ calls = 1
    /\ Len(sample) = 2
    /\ Satisfies(sample[1], wait_condition_fns)
    /\ Satisfies(sample[2], wait_condition_fns)
    /\ sample[1] # sample[2]
    /\ result.value = Some(sample[1])

\* C3: a polled snapshot with no success-matching condition and at least one
\* failure-matching condition (failure predicates given) ends the wait with
\* WaitForStatusConditionFailed, whose text carries the resource's name and
\* the message of the first failure-matching condition; the accessor is not
\* invoked after that snapshot.
C3_FailureRaised ==
    [][ /\ ( /\ calls' >= 1
             /\ ~HasSatisfying(sample', wait_condition_fns')
             /\ FailureSetGiven'
             /\ HasSatisfying(sample', not_wait_condition_fns'[1]) )
           => ( /\ FAILED'
                /\ Len(result'.text) = 4
                /\ result'.text[2] = name'
                /\ result'.text[4] =
                     FirstSatisfying(sample', not_wait_condition_fns'[1])["message"] )
        /\ FAILED => calls' = calls ]_vars

\* The wait failed on a snapshot whose first condition matches nothing and
\* carries another message than the failure-matching condition after it.
C3_Witness ==
    /\ FAILED
    /\ Len(sample) = 2
    /\ ~Satisfies(sample[1], not_wait_condition_fns[1])
    /\ Satisfies(sample[2], not_wait_condition_fns[1])
    /\ sample[1]["message"] # sample[2]["message"]
    /\ result.text[4] = sample[2]["message"]

\* C4: while no polled snapshot matches a success or failure predicate the
\* wait goes on, and once the elapsed time has reached wait_timeout it ends
\* with TimeoutExpiredError; a finished wait is in exactly one of SUCCEEDED,
\* FAILED and TIMED_OUT, so `return {}` is never reached.
C4_TimeoutOrTerminal ==
    [][ /\ ( pc = "polling" /\ elapsed >= wait_timeout ) => TIMED_OUT'
        /\ pc' = "done" =>
              \/ SUCCEEDED' /\ ~FAILED' /\ ~TIMED_OUT'
              \/ FAILED' /\ ~SUCCEEDED' /\ ~TIMED_OUT'
              \/ TIMED_OUT' /\ ~SUCCEEDED' /\ ~FAILED' ]_vars

\* The wait timed out after at least two snapshots, the last one not empty.
C4_Witness ==
    /\ TIMED_OUT
    /\ calls >= 2
    /\ sample # <<>>
    /\ elapsed >= wait_timeout

\* C5: with no failure predicates (None or an empty list) the wait never
\* raises WaitForStatusConditionFailed: it ends only with a success-matching
\* condition returned or with the timeout error, sync-error conditions in
\* the snapshots notwithstanding.
C5_NoFailureSetNeverFails ==
    ~FailureSetGiven =>
        /\ ~FAILED
        /\ pc = "done" =>
              \/ SUCCEEDED /\ Satisfies(result.value[1], wait_condition_fns)
              \/ TIMED_OUT

\* No failure predicates, a sync-error condition was polled, and the wait
\* ended by timeout.
C5_Witness ==
    /\ not_wait_condition_fns = None
    /\ TIMED_OUT
    /\ \E i \in 1..Len(sample) : IsSyncErrorTriple(sample[i])

---------------------------------------------------------------------------
(* Claims about the condition classifier (SpecClassifier) *)

HasTriple(c) == {"type", "status", "reason"} \subseteq DOMAIN c

\* C6: on a record with type, status and reason, is_ready_condition is true
\* iff (NetworkReady, True, NetworkAttachmentDefinitionReady), and
\* is_sync_error_condition is true iff (NetworkReady, False, SyncError); the
\* message, present or not, changes neither result; no record satisfies both.
C6_ClassifierIff ==
    HasTriple(condition) =>
        /\ ready_result # NotCalled =>
              /\ ready_result = Return(IsReadyTriple(condition))
              /\ \A m \in MessageValues :
                    is_ready_condition(SetItem(condition, "message", m)) = ready_result
        /\ sync_result # NotCalled =>
              /\ sync_result = Return(IsSyncErrorTriple(condition))
              /\ \A m \in MessageValues :
                    is_sync_error_condition(SetItem(condition, "message", m)) = sync_result
        /\ ~(ready_result.ret /\ sync_result.ret)

\* Both predicates were applied to a ready condition.
C6_Witness ==
    /\ HasTriple(condition)
    /\ IsReadyTriple(condition)
    /\ ready_result = Return(TRUE)
    /\ sync_result = Return(FALSE)

\* C7: each predicate returns a bool and raises nothing on a record carrying
\* any subset of the fields type, status, reason, message.
C7_PredicatesTotal ==
    /\ ready_result # NotCalled => ready_result.exc = "none"
    /\ sync_result # NotCalled => sync_result.exc = "none"

---------------------------------------------------------------------------
(* Claims about the document builder (SpecBuilder) *)

VariantKeys == {"layer2", "layer3", "localNet"}

TopologyKey(topology) ==
    CASE topology = "Layer2" -> "layer2"
      [] topology = "Layer3" -> "layer3"
      [] topology = "LocalNet" -> "localNet"

TypedKinds ==
    {"Layer2UserDefinedNetwork", "Layer3UserDefinedNetwork", "LocalNetUserDefinedNetwork"}

OwnKey(kind) ==
    CASE kind = "Layer2UserDefinedNetwork" -> "layer2"
      [] kind = "Layer3UserDefinedNetwork" -> "layer3"
      [] kind = "LocalNetUserDefinedNetwork" -> "localNet"

\* The raw sub-document the constructor received under a key, None if none.
RawGiven(key) ==
    CASE key = "layer2" -> given.layer2
      [] key = "layer3" -> given.layer3
      [] key = "localNet" -> given.local_net

RenderedFromArguments == res # None /\ given.yaml_file = None

ExactlyOneMatchingVariant ==
    LET spec == res[1]["spec"]
    IN  /\ "topology" \in DOMAIN spec
        /\ DOMAIN spec \cap VariantKeys = {TopologyKey(spec["topology"])}

\* C8 as stated: every resource built from constructor arguments, raw
\* sub-documents passed through included, renders exactly one of layer2,
\* layer3, localNet under spec, the one matching spec.topology.
C8_ExactlyOneVariant == RenderedFromArguments => ExactlyOneMatchingVariant

\* Raw sub-documents are passed only under the key of the resource's own
\* topology: none under the other two keys, and to the base class a topology
\* together with the raw sub-document of that topology.
RawOnlyForOwnTopology ==
    /\ given.topology # None
    /\ \A k \in VariantKeys \ {TopologyKey(given.topology[1])} : RawGiven(k) = None
    /\ given.kind = "UserDefinedNetwork" => RawGiven(TopologyKey(given.topology[1])) # None

\* C8 as amended: a resource built from constructor arguments whose raw
\* sub-documents are passed only under the key of its own topology renders
\* exactly one of layer2, layer3, localNet, the one matching spec.topology.
C8_ExactlyOneVariantOwnRaw ==
    (RenderedFromArguments /\ RawOnlyForOwnTopology) => ExactlyOneMatchingVariant

\* A LocalNet resource given a raw localNet sub-document and typed
\* attributes, rendered.
C8_Witness ==
    /\ RenderedFromArguments
    /\ RawOnlyForOwnTopology
    /\ given.kind = "LocalNetUserDefinedNetwork"
    /\ given.local_net # None
    /\ given.role # None
    /\ "localNet" \in DOMAIN res[1]["spec"]

\* The typed attributes of each subclass and the keys they render under.
AttributeKeys(kind) ==
    CASE kind = "Layer2UserDefinedNetwork" ->
           { <<"role", "role">>, <<"mtu", "mtu">>, <<"subnets", "subnets">>,
             <<"join_subnets", "joinSubnets">>, <<"ipam_lifecycle", "ipamLifecycle">> }
      [] kind = "Layer3UserDefinedNetwork" ->
           { <<"role", "role">>, <<"mtu", "mtu">>, <<"subnets", "subnets">>,
             <<"join_subnets", "joinSubnets">> }
      [] kind = "LocalNetUserDefinedNetwork" ->
           { <<"role", "role">>, <<"mtu", "mtu">>, <<"subnets", "subnets">>,
             <<"exclude_subnets", "excludeSubnets">>, <<"ipam_lifecycle", "ipamLifecycle">> }

\* A Layer3 subnet as the document shows it: cidr and hostSubnet, each only
\* when set.
ExpectedSubnet(s) ==
    IF s.cidr # None /\ s.host_subnet # None
    THEN [cidr |-> s.cidr[1], hostSubnet |-> s.host_subnet[1]]
    ELSE IF s.cidr # None THEN [cidr |-> s.cidr[1]]
    ELSE IF s.host_subnet # None THEN [hostSubnet |-> s.host_subnet[1]]
    ELSE EmptyDict

ExpectedSubnets(l) == [i \in 1..Len(l) |-> ExpectedSubnet(l[i])]

IsSuffix(tail, list) ==
    /\ Len(tail) <= Len(list)
    /\ \A i \in 1..Len(tail) : list[Len(list) - Len(tail) + i] = tail[i]

OwnVariant == res[1]["spec"][OwnKey(given.kind)]

\* C9 as stated: on a Layer2, Layer3 or LocalNet resource every typed
\* attribute left unset has no key in the rendered document, and every
\* attribute that is set appears under its camelCase key with its value
\* (Layer3 subnets as {cidr, hostSubnet} dicts without the unset keys).
C9_OmissionLaw ==
    (RenderedFromArguments /\ given.kind \in TypedKinds) =>
        \A ak \in AttributeKeys(given.kind) :
            IF given[ak[1]] = None
            THEN ak[2] \notin DOMAIN OwnVariant
            ELSE /\ ak[2] \in DOMAIN OwnVariant
                 /\ OwnVariant[ak[2]] =
                      IF given.kind = "Layer3UserDefinedNetwork" /\ ak[1] = "subnets"
                      THEN ExpectedSubnets(given.subnets[1])
                      ELSE given[ak[1]][1]

RawCarries(key) ==
    /\ RawGiven(OwnKey(given.kind)) # None
    /\ key \in DOMAIN RawGiven(OwnKey(given.kind))[1]

\* C9 as amended: to_dict emits no key and no placeholder for a typed
\* attribute left unset, so its key is in the rendered sub-document exactly
\* when the raw sub-document passed for that topology carries it, with the
\* raw value; an attribute that is set appears under its camelCase key with
\* its value, the Layer3 subnets as {cidr, hostSubnet} dicts (unset keys
\* left out) that end the subnets list.
C9_OmissionLawWithRaw ==
    (RenderedFromArguments /\ given.kind \in TypedKinds) =>
        \A ak \in AttributeKeys(given.kind) :
            IF given[ak[1]] = None
            THEN /\ (ak[2] \in DOMAIN OwnVariant) = RawCarries(ak[2])
                 /\ RawCarries(ak[2]) =>
                       OwnVariant[ak[2]] = RawGiven(OwnKey(given.kind))[1][ak[2]]
            ELSE /\ ak[2] \in DOMAIN OwnVariant
                 /\ IF given.kind = "Layer3UserDefinedNetwork" /\ ak[1] = "subnets"
                    THEN IsSuffix(ExpectedSubnets(given.subnets[1]), OwnVariant[ak[2]])
                    ELSE OwnVariant[ak[2]] = given[ak[1]][1]

\* A Layer3 resource with mtu unset, role set and a subnet that has a cidr
\* and no host_subnet, given a raw layer3 sub-document, rendered.
C9_Witness ==
    /\ RenderedFromArguments
    /\ given.kind = "Layer3UserDefinedNetwork"
    /\ given.layer3 # None
    /\ given.mtu = None
    /\ given.role # None
    /\ given.subnets = Some(<<Layer3Subnets(Some("10.0.0.0/16"), None)>>)
    /\ "role" \in DOMAIN OwnVariant
    /\ "subnets" \in DOMAIN OwnVariant

\* C10: to_dict called again on the same instance renders the same
\* document, the Layer3 subnets list included, also when a raw layer3
\* sub-document came with typed subnets, and leaves the raw sub-documents
\* the caller supplied as they were.
C10_Idempotent ==
    /\ (renders >= 2 /\ given.yaml_file = None) => res = prev_res
    /\ (renders >= 1 /\ given.yaml_file = None) =>
          /\ udn.layer2 = given.layer2
          /\ udn.layer3 = given.layer3
          /\ udn.local_net = given.local_net

====
